---- MODULE Spec2Model ----
(***************************************************************************)
(* Model of the colab-clients repository.                                  *)
(*                                                                         *)
(*  - the paginated fetchers with 429 backoff:                             *)
(*      OktaClient.fetch_system_logs   (src/okta_client.py:24-97)          *)
(*      EntraClient.fetch_audit_logs   (src/entra_client.py:109-172)       *)
(*    specification SpecFetch                                              *)
(*  - the schema projection:                                               *)
(*      BigQueryClient.filter_json_to_schema (src/bigquery_client.py)      *)
(*    specification SpecProject                                            *)
(*                                                                         *)
(* The HTTP server is the environment: every request is answered by a      *)
(* response drawn from Responses.  hist records, per request, what was     *)
(* sent, what was answered and how long the client slept afterwards.       *)
(***************************************************************************)
EXTENDS Integers, Sequences, FiniteSets, TLC

VARIABLES
    pc,              \* "idle" | "loop" | "done" | "raised"      (fetchers)
    client,          \* "none" | "okta" | "entra": which fetcher was called
    max_retries,     \* max_retries (okta) / retry_count (entra)
    url,             \* the loop variable url
    params,          \* okta: "initial" | "None"; the params dict of the call
    logs,            \* the accumulated list logs
    retry_attempts,  \* retry_attempts (okta) / retries (entra)
    last_next_link,  \* okta only
    reason,          \* why the loop was left
    hist,            \* observer: one entry per request issued
    json_obj,        \* filter_json_to_schema: argument json_obj
    schema,          \* filter_json_to_schema: argument schema
    filtered,        \* result of filter_json_to_schema(json_obj, schema)
    refiltered,      \* result of filter_json_to_schema(filtered, schema)
    pstep,           \* "off" | "input" | "once" | "twice"
    ins_pc,          \* insert_rows_json: "idle" | "loop" | "done" | "raised"
    json_rows,       \* insert_rows_json: argument json_rows
    chunk_size,      \* insert_rows_json: argument chunk_size
    ins_i,           \* insert_rows_json: loop variable i
    calls,           \* observer: the client.insert_rows_json calls made
    table,           \* the rows the BigQuery table holds
    wf_pc,           \* run_workflow: "idle" | "compile" | "start" |
                     \*   "details" | "poll" | "returned" | "raised"
    timeout,         \* run_workflow: argument timeout
    poll_interval,   \* run_workflow: argument poll_interval
    transpile_only,  \* run_workflow: argument transpile_only
    start_time,      \* run_workflow: local start_time
    clock,           \* time.time()
    wf_result,       \* what run_workflow returned or raised
    wf_log,          \* observer: the requests and sleeps of run_workflow
    credentials,     \* ColabClient.credentials
    access_token,    \* ColabClient.access_token
    minted,          \* tokens the token endpoint has issued so far
    token_call,      \* observer: the last get_access_token call
    rep_pc,          \* report fetcher: "idle" | "loop" | "done"
    fetcher,         \* which AdminSDKClient report fetcher was called
    all_records,     \* all_usage_records / all_activities
    next_page_token, \* next_page_token ("None" when None)
    rep_result,      \* what the report fetcher returned
    rep_hist,        \* observer: the page requests and their results
    token_file,      \* what the file self.token_file holds
    oauth_credentials, \* GoogleOAuthTokenFetcherInteractive.credentials
    grants,          \* authorization codes exchanged so far
    oauth_call       \* observer: the last fetch_token call

fetchVars == <<pc, client, max_retries, url, params, logs, retry_attempts,
               last_next_link, reason, hist>>
projVars == <<json_obj, schema, filtered, refiltered, pstep>>
insertVars == <<ins_pc, json_rows, chunk_size, ins_i, calls, table>>
vars == <<pc, client, max_retries, url, params, logs, retry_attempts,
          last_next_link, reason, hist,
          json_obj, schema, filtered, refiltered, pstep,
          ins_pc, json_rows, chunk_size, ins_i, calls, table,
          wf_pc, timeout, poll_interval, transpile_only, start_time, clock,
          wf_result, wf_log, credentials, access_token, minted, token_call,
          rep_pc, fetcher, all_records, next_page_token, rep_result, rep_hist,
          token_file, oauth_credentials, grants, oauth_call>>
oauthVars == <<token_file, oauth_credentials, grants, oauth_call>>
tokenVars == <<credentials, access_token, minted, token_call>>
reportVars == <<rep_pc, fetcher, all_records, next_page_token, rep_result,
                rep_hist>>
flowVars == <<wf_pc, timeout, poll_interval, transpile_only, start_time,
              clock, wf_result, wf_log>>

\* what the operations of one client leave alone
exceptFetch ==
    <<projVars, insertVars, flowVars, tokenVars, reportVars, oauthVars>>
exceptProject ==
    <<fetchVars, insertVars, flowVars, tokenVars, reportVars, oauthVars>>
exceptInsert ==
    <<fetchVars, projVars, flowVars, tokenVars, reportVars, oauthVars>>
exceptFlow ==
    <<fetchVars, projVars, insertVars, tokenVars, reportVars, oauthVars>>
exceptToken ==
    <<fetchVars, projVars, insertVars, flowVars, reportVars, oauthVars>>
exceptReport ==
    <<fetchVars, projVars, insertVars, flowVars, tokenVars, oauthVars>>
exceptOauth ==
    <<fetchVars, projVars, insertVars, flowVars, tokenVars, reportVars>>

(***************************************************************************)
(* Bounds                                                                  *)
(***************************************************************************)
\* requests one traversal may issue before the model stops following it
MaxReq == 4
\* the retry budget of a call is drawn from 0..MaxBudget
MaxBudget == 2
\* longest list inside a JSON input of the projection
MaxListLen == 2
\* longest json_rows list of an insertion
MaxRows == 4
\* chunk_size is drawn from 0..MaxChunk
MaxChunk == 2
\* status checks one run_workflow may make before the model stops
MaxChecks == 4
\* timeout is drawn from 0..MaxTimeout
MaxTimeout == 3
\* tokens the token endpoint issues before the model stops
MaxTokens == 4
\* page requests one report fetcher may make before the model stops
MaxPages == 3
\* requests one fetch may make under SpecBackoff
MaxLongReq == 8
\* the retry budget of the fetches under SpecBackoff
MaxLongBudget == 7
\* authorization codes the model lets fetch_token exchange
MaxGrants == 3

(***************************************************************************)
(* Small helpers                                                           *)
(***************************************************************************)
Max(a, b) == IF a >= b THEN a ELSE b
Min(a, b) == IF a <= b THEN a ELSE b

SeqsUpTo(S, n) == UNION {[1..k -> S] : k \in 0..n}

(***************************************************************************)
(* HTTP environment                                                        *)
(***************************************************************************)
NoLink == "None"          \* no next link / url is None or empty (falsy)
BaseUrl == "base_url"     \* the URL of the first request
Links == {"L1", "L2"}     \* next links a server may hand out
NextLinks == {NoLink, BaseUrl} \cup Links

Bodies == {<<>>, <<"a">>, <<"b", "a">>}   \* record arrays of a page

RaAbsent == [kind |-> "absent", secs |-> 0]
RaDate == [kind |-> "date", secs |-> 0]   \* an HTTP-date, not an integer
RaSecs(n) == [kind |-> "secs", secs |-> n]
RetryAfterSecs == {3}
RetryAfterHeaders == {RaAbsent, RaDate} \cup {RaSecs(n) : n \in RetryAfterSecs}

Resp200(b, n) == [status |-> 200, body |-> b, next |-> n, ra |-> RaAbsent]
Resp429(h) == [status |-> 429, body |-> <<>>, next |-> NoLink, ra |-> h]
Resp500 == [status |-> 500, body |-> <<>>, next |-> NoLink, ra |-> RaAbsent]

Responses ==
    {Resp200(b, n) : b \in Bodies, n \in NextLinks}
    \cup {Resp429(h) : h \in RetryAfterHeaders}
    \cup {Resp500}

(***************************************************************************)
(* Paginated fetchers                                                      *)
(***************************************************************************)
\* no projection is under way
ProjIdle ==
    /\ json_obj = [t |-> "null"] /\ schema = <<>>
    /\ filtered = [t |-> "null"] /\ refiltered = [t |-> "null"]
    /\ pstep = "off"

\* no fetcher has been called
FetchIdle ==
    /\ pc = "idle" /\ client = "none" /\ max_retries = 0
    /\ url = NoLink /\ params = "None" /\ logs = <<>>
    /\ retry_attempts = 0 /\ last_next_link = NoLink
    /\ reason = "none" /\ hist = <<>>

\* no insertion is under way
InsertIdle ==
    /\ ins_pc = "idle" /\ json_rows = <<>> /\ chunk_size = 0 /\ ins_i = 0
    /\ calls = <<>> /\ table = <<>>

\* run_workflow has not been called
FlowIdle ==
    /\ wf_pc = "idle" /\ timeout = 0 /\ poll_interval = 0
    /\ transpile_only = FALSE /\ start_time = 0 /\ clock = 0
    /\ wf_result = "none" /\ wf_log = <<>>

\* ColabClient.__init__: credentials = None, access_token = None
NoToken == 0
NoCredentials == [set |-> FALSE, valid |-> FALSE, token |-> NoToken]
NoCall == [outcome |-> "none", refreshed |-> FALSE, value |-> NoToken,
           pre |-> NoCredentials, pre_token |-> NoToken,
           post |-> NoCredentials, post_token |-> NoToken]
TokenIdle ==
    /\ credentials = NoCredentials /\ access_token = NoToken
    /\ minted = 0 /\ token_call = NoCall

\* no report fetcher has been called
NoResult == [t |-> "pending", v |-> <<>>]
ReportIdle ==
    /\ rep_pc = "idle" /\ fetcher = "none" /\ all_records = <<>>
    /\ next_page_token = "None" /\ rep_result = NoResult /\ rep_hist = <<>>

\* a token file and Credentials objects: kind "creds" carries the grant
\* it came from, whether its token has expired and whether it holds a
\* refresh token
NoCreds == [kind |-> "None", id |-> 0, expired |-> FALSE, rt |-> FALSE]
AbsentFile == [kind |-> "absent", id |-> 0, expired |-> FALSE, rt |-> FALSE]
CorruptFile == [kind |-> "corrupt", id |-> 0, expired |-> FALSE, rt |-> FALSE]
Creds(id, expired, rt) ==
    [kind |-> "creds", id |-> id, expired |-> expired, rt |-> rt]
NoFetch ==
    [result |-> "none", flow |-> FALSE, refresh |-> "no", pasted |-> FALSE,
     exchanged |-> FALSE, file_before |-> AbsentFile,
     file_after |-> AbsentFile, stored_before |-> NoCreds,
     stored_after |-> NoCreds]

\* GoogleOAuthTokenFetcherInteractive.__init__, no token file on disk
OauthIdle ==
    /\ token_file = AbsentFile /\ oauth_credentials = NoCreds
    /\ grants = 0 /\ oauth_call = NoFetch

OthersIdle == FlowIdle /\ TokenIdle /\ ReportIdle /\ OauthIdle

InitFetch == FetchIdle /\ ProjIdle /\ InsertIdle /\ OthersIdle

\* what the observer writes down for one request
Entry(u, withParams, resp, slept, wait) ==
    [url |-> u, params |-> withParams, resp |-> resp,
     slept |-> slept, wait |-> wait]

\* int(response.headers.get("Retry-After", 1)); defined for a header that
\* is absent or holds an integer
RetryAfter(h) == IF h.kind = "absent" THEN 1 ELSE h.secs

\* min(2 ** retry_attempts, 60)
BackoffTimeUncapped(a) == 2 ^ a
BackoffTime(a) == Min(2 ^ a, 60)

\* max(retry_after, backoff_time)
WaitTime(h, a) == Max(RetryAfter(h), BackoffTime(a))

\* logs.extend(data)
ExtendPrepend(l, data) == data \o l
ExtendDedup(l, data) ==
    l \o SelectSeq(data, LAMBDA x : \A i \in 1..Len(l) : l[i] # x)
Extend(l, data) == l \o data

\* retry_attempts >= max_retries
ExhaustedOffByOne(a, n) == a > n
ExhaustedPastBudget(a, n) == a > n + 1
ExhaustedNever(a, n) == FALSE
Exhausted(a, n) == a >= n

\* retry_attempts = 0 after a page (okta line 75), retries = 0 (entra line 170)
ResetKeep(a) == a
Reset(a) == 0

\* retry_attempts += 1 (okta line 60), retries += 1 (entra line 157)
IncrementedTwice(a) == a + 2
Incremented(a) == a + 1

\* not data (okta line 69)
NoDataNever(data) == FALSE
NoData(data) == data = <<>>

\* next_link == last_next_link: "Pagination is stuck"
StuckNever(next, last) == FALSE
StuckOnAnyLink(next, last) == last # NoLink
Stuck(next, last) == next = last

\* fetch_system_logs(max_retries = n): lines 34-45
CallFetchSystemLogs(n) ==
    /\ pc = "idle"
    /\ pc' = "loop" /\ client' = "okta" /\ max_retries' = n
    /\ url' = BaseUrl /\ params' = "initial" /\ logs' = <<>>
    /\ retry_attempts' = 0 /\ last_next_link' = NoLink
    /\ UNCHANGED <<reason, hist>>
    /\ UNCHANGED exceptFetch

\* fetch_audit_logs(retry_count = n): lines 122-138
CallFetchAuditLogs(n) ==
    /\ pc = "idle"
    /\ pc' = "loop" /\ client' = "entra" /\ max_retries' = n
    /\ url' = BaseUrl /\ params' = "initial" /\ logs' = <<>>
    /\ retry_attempts' = 0
    /\ UNCHANGED <<last_next_link, reason, hist>>
    /\ UNCHANGED exceptFetch

\* leaving the while loop and returning logs
Leave(why) == pc' = "done" /\ reason' = why

\* the 429 branch, the same in both fetchers
\* (okta_client.py:51-61, entra_client.py:149-158)
RateLimited(resp, withParams) ==
    IF Exhausted(retry_attempts, max_retries)
    THEN /\ Leave("rate_limited_exhausted")
         /\ hist' = Append(hist, Entry(url, withParams, resp, FALSE, 0))
         /\ UNCHANGED <<url, params, logs, retry_attempts, last_next_link>>
    ELSE IF resp.ra.kind = "date"
    THEN \* int() of a non-integer string raises ValueError
         /\ pc' = "raised" /\ reason' = "ValueError"
         /\ hist' = Append(hist, Entry(url, withParams, resp, FALSE, 0))
         /\ UNCHANGED <<url, params, logs, retry_attempts, last_next_link>>
    ELSE /\ hist' = Append(hist, Entry(url, withParams, resp, TRUE,
                                        WaitTime(resp.ra, retry_attempts)))
         /\ retry_attempts' = Incremented(retry_attempts)
         /\ UNCHANGED <<pc, reason, url, params, logs, last_next_link>>

\* a status that is neither 429 nor 200: print and break
\* (okta_client.py:63-66, entra_client.py:160-163)
HttpFailureRetried(resp, withParams) ==
    /\ hist' = Append(hist, Entry(url, withParams, resp, TRUE, 1))
    /\ UNCHANGED <<pc, reason, url, params, logs, retry_attempts,
                   last_next_link>>
HttpFailure(resp, withParams) ==
    /\ Leave("http_error")
    /\ hist' = Append(hist, Entry(url, withParams, resp, FALSE, 0))
    /\ UNCHANGED <<url, params, logs, retry_attempts, last_next_link>>

\* the part of one iteration of fetch_system_logs that handles a 200
\* response: lines 68-95
OktaPage(resp) ==
    /\ hist' = Append(hist, Entry(url, params = "initial", resp, FALSE, 0))
    /\ IF NoData(resp.body)
       THEN \* if not data: break
            /\ Leave("no_data")
            /\ UNCHANGED <<url, params, logs, retry_attempts, last_next_link>>
       ELSE /\ logs' = Extend(logs, resp.body)
            /\ retry_attempts' = Reset(retry_attempts)
            /\ IF resp.next # NoLink
               THEN IF Stuck(resp.next, last_next_link)
                    THEN /\ Leave("stalled")
                         /\ UNCHANGED <<url, params, last_next_link>>
                    ELSE /\ last_next_link' = resp.next
                         /\ url' = resp.next
                         /\ params' = "None"
                         /\ UNCHANGED <<pc, reason>>
               ELSE \* url = None ends the while loop
                    /\ url' = NoLink
                    /\ Leave("completed")
                    /\ UNCHANGED <<params, last_next_link>>

\* one iteration of the while loop of fetch_system_logs: lines 47-95;
\* cap: the requests after which the model stops
OktaStep(resp, cap) ==
    /\ pc = "loop" /\ client = "okta"
    /\ url # NoLink
    /\ Len(hist) < cap
    /\ IF resp.status = 429 THEN RateLimited(resp, params = "initial")
       ELSE IF resp.status # 200 THEN HttpFailure(resp, params = "initial")
       ELSE OktaPage(resp)
    /\ UNCHANGED <<client, max_retries>>
    /\ UNCHANGED exceptFetch

\* the part of one iteration of fetch_audit_logs that handles a 200
\* response: lines 165-170
EntraPage(resp) ==
    /\ hist' = Append(hist, Entry(url, url = BaseUrl, resp, FALSE, 0))
    /\ logs' = Extend(logs, resp.body)
    /\ url' = resp.next
    /\ retry_attempts' = Reset(retry_attempts)
    /\ IF resp.next = NoLink THEN Leave("completed")
       ELSE UNCHANGED <<pc, reason>>
    /\ UNCHANGED <<params, last_next_link>>

\* one iteration of the while loop of fetch_audit_logs: lines 140-170;
\* cap: the requests after which the model stops
EntraStep(resp, cap) ==
    /\ pc = "loop" /\ client = "entra"
    /\ url # NoLink
    /\ Len(hist) < cap
    /\ IF resp.status = 429 THEN RateLimited(resp, url = BaseUrl)
       ELSE IF resp.status # 200 THEN HttpFailure(resp, url = BaseUrl)
       ELSE EntraPage(resp)
    /\ UNCHANGED <<client, max_retries>>
    /\ UNCHANGED exceptFetch

OktaIter(resp) == OktaStep(resp, MaxReq)
EntraIter(resp) == EntraStep(resp, MaxReq)

NextFetch ==
    \/ \E n \in 0..MaxBudget : CallFetchSystemLogs(n)
    \/ \E n \in 0..MaxBudget : CallFetchAuditLogs(n)
    \/ \E resp \in Responses : OktaIter(resp)
    \/ \E resp \in Responses : EntraIter(resp)

SpecFetch == InitFetch /\ [][NextFetch]_vars

\* the fetchers against a server that keeps rate-limiting: long runs of
\* 429 responses, with budgets large enough for the backoff to reach its cap
BackoffSecs == {3, 61}
BackoffResponses ==
    {Resp429(RaAbsent)} \cup {Resp429(RaSecs(n)) : n \in BackoffSecs}
    \cup {Resp200(<<"a">>, "L1")}

NextBackoff ==
    \/ CallFetchSystemLogs(MaxLongBudget)
    \/ CallFetchAuditLogs(MaxLongBudget)
    \/ \E resp \in BackoffResponses : OktaStep(resp, MaxLongReq)
    \/ \E resp \in BackoffResponses : EntraStep(resp, MaxLongReq)

SpecBackoff == InitFetch /\ [][NextBackoff]_vars

(***************************************************************************)
(* The fetchers without a 429 branch: OktaClient.fetch_deactivated_users,  *)
(* fetch_users, fetch_all_workflows, fetch_app_users and                   *)
(* EntraClient.fetch_all_users                                             *)
(***************************************************************************)
OktaPlainFetchers == {"fetch_deactivated_users", "fetch_users",
                      "fetch_all_workflows", "fetch_app_users"}
PlainFetchers == OktaPlainFetchers \cup {"fetch_all_users"}

\* the fetchers that pass params to requests.get
SendsParams(f) ==
    f \in {"fetch_deactivated_users", "fetch_users", "fetch_app_users"}

\* a call of one of the five fetchers: url, params and the empty list
CallPlainFetcher(f) ==
    /\ pc = "idle"
    /\ pc' = "loop" /\ client' = f
    /\ url' = BaseUrl /\ logs' = <<>>
    /\ params' = IF SendsParams(f) THEN "initial" ELSE "None"
    /\ UNCHANGED <<max_retries, retry_attempts, last_next_link, reason, hist>>
    /\ UNCHANGED exceptFetch

\* a status other than 200, 429 included: fetch_all_users raises
\* (entra_client.py:97-100), the Okta fetchers print and break
PlainFailure(f) ==
    IF f = "fetch_all_users"
    THEN pc' = "raised" /\ reason' = "Exception"
    ELSE Leave("http_error")

\* one iteration of while url
PlainIter(resp) ==
    /\ pc = "loop" /\ client \in PlainFetchers
    /\ url # NoLink
    /\ Len(hist) < MaxReq
    /\ hist' = Append(hist, Entry(url, params = "initial", resp, FALSE, 0))
    /\ IF resp.status # 200
       THEN /\ PlainFailure(client)
            /\ UNCHANGED <<url, params, logs>>
       ELSE /\ logs' = Extend(logs, resp.body)
            /\ url' = resp.next
            /\ IF resp.next # NoLink
               THEN /\ params' = "None"
                    /\ UNCHANGED <<pc, reason>>
               ELSE /\ Leave("completed")
                    /\ UNCHANGED params
    /\ UNCHANGED <<client, max_retries, retry_attempts, last_next_link>>
    /\ UNCHANGED exceptFetch

NextPlain ==
    \/ \E f \in PlainFetchers : CallPlainFetcher(f)
    \/ \E resp \in Responses : PlainIter(resp)

SpecPlain == InitFetch /\ [][NextPlain]_vars

\* every paginated fetcher of the Okta and Entra clients
NextPaginated == NextFetch \/ NextPlain

SpecPaginated == InitFetch /\ [][NextPaginated]_vars

(***************************************************************************)
(* JSON values and schemas                                                 *)
(***************************************************************************)
JNull == [t |-> "null"]                 \* None
JStr == [t |-> "str", v |-> "s"]
JNum == [t |-> "num", v |-> 1]
JBool == [t |-> "bool", v |-> TRUE]
JList(l) == [t |-> "list", v |-> l]
JObj(o) == [t |-> "obj", v |-> o]       \* a dict: keys -> values
EmptyMap == [k \in {} |-> JNull]
Raised == [t |-> "raise"]               \* the call ended with an exception
Absent == [t |-> "absent"]              \* marks a key left out of an input

\* a dict that holds the keys of c whose choice is not Absent
FromChoices(c) ==
    JObj([k \in {x \in DOMAIN c : c[x] # Absent} |-> c[k]])

\* schema entries are dicts with the keys name, type, mode and fields
PrimField(n, m) == [name |-> n, type |-> "STRING", mode |-> m]
RecordField(n, m, fs) ==
    [name |-> n, type |-> "RECORD", mode |-> m, fields |-> fs]
UntypedField(n, m) == [name |-> n, mode |-> m]   \* not a well-formed entry
Modes == {"REQUIRED", "NULLABLE", "REPEATED"}

LeafSchemas == {<<PrimField("k", m)>> : m \in Modes}
MidSchemas ==
    LeafSchemas
    \cup {<<RecordField("k", m, <<PrimField("k", "REQUIRED")>>)>> :
            m \in {"NULLABLE", "REPEATED"}}
FieldSpecsF ==
    {PrimField("f", m) : m \in Modes}
    \cup {RecordField("f", m, c) : m \in Modes, c \in MidSchemas}
    \cup {UntypedField("f", "NULLABLE")}
FieldSpecsG == {PrimField("g", m) : m \in {"REQUIRED", "NULLABLE"}}
Schemas ==
    {<<>>} \cup {<<f>> : f \in FieldSpecsF}
    \cup {<<f, g>> : f \in FieldSpecsF, g \in FieldSpecsG}

RECURSIVE WellFormed(_)
\* every entry has a name and a type, names are unique, and an entry has
\* child fields exactly when it is a RECORD
WellFormed(sch) ==
    /\ \A i \in 1..Len(sch) :
          /\ {"name", "type", "mode"} \subseteq DOMAIN sch[i]
          /\ sch[i].mode \in Modes
          /\ ("fields" \in DOMAIN sch[i]) <=> (sch[i].type = "RECORD")
          /\ "fields" \in DOMAIN sch[i] => WellFormed(sch[i].fields)
    /\ \A i, j \in 1..Len(sch) : sch[i].name = sch[j].name => i = j

\* inputs: keys k and u inside, f, g and u at the top; u is never declared
Scalars == {JStr, JNum, JBool}
InnerItems == {JNull, JStr, JObj(EmptyMap)}
InnerLists == {JList(l) : l \in SeqsUpTo(InnerItems, MaxListLen)}
InnerRecord == JObj([x \in {"k", "u"} |-> JStr])
InnerVals ==
    {JNull} \cup Scalars \cup InnerLists
    \cup {JObj(EmptyMap), InnerRecord, JList(<<InnerRecord, JStr>>)}
InnerObjs ==
    {FromChoices(c) : c \in [k : InnerVals \cup {Absent}, u : {JStr, Absent}]}
RecItems ==
    {JNull, JStr, JObj(EmptyMap), JObj([x \in {"k"} |-> JStr]),
     InnerRecord, JObj([x \in {"k"} |-> JObj(EmptyMap)])}
RecLists == {JList(l) : l \in SeqsUpTo(RecItems, MaxListLen)}
FVals == {JNull} \cup Scalars \cup InnerLists \cup InnerObjs \cup RecLists
GVals == {JNull, JStr, JList(<<JStr>>)}
TopObjs ==
    {FromChoices(c) : c \in [f : FVals \cup {Absent},
                             g : GVals \cup {Absent},
                             u : {JStr, Absent}]}
TopInputs ==
    TopObjs \cup {JNull, JStr, JNum, JBool, JList(<<>>), JList(<<InnerRecord>>)}

(***************************************************************************)
(* BigQueryClient.filter_json_to_schema                                    *)
(***************************************************************************)
\* isinstance(x, dict)
IsDictAlways(x) == TRUE
IsDict(x) == x.t = "obj"

\* isinstance(x, list)
IsList(x) == x.t = "list"

\* isinstance(item, (str, int, float, bool))
IsPrimitive(x) == x.t \in {"str", "num", "bool"}

\* json_obj.get(field_name): None when the key is missing, AttributeError
\* when json_obj has no get
DictGet(obj, key) ==
    IF obj.t # "obj" THEN Raised
    ELSE IF key \in DOMAIN obj.v THEN obj.v[key] ELSE JNull

\* field_schema.get("mode")
Mode(fs) == IF "mode" \in DOMAIN fs THEN fs.mode ELSE "None"

\* field_schema.get("mode") == "REQUIRED"
IsRequiredNever(fs) == FALSE
IsRequiredWhenNullable(fs) == Mode(fs) = "NULLABLE"
IsRequired(fs) == Mode(fs) = "REQUIRED"

\* return {} for a json_obj that is not a dict
NotDictNone == JNull
NotDictResult == JObj(EmptyMap)

\* filtered_json[field_name] = [] for a REPEATED field that holds no list
RepeatedNotListNone == JNull
RepeatedNotList == JList(<<>>)

\* schema_fields = {field["name"]: field for field in schema}
SchemaFields(sch) ==
    LET names == {sch[i].name : i \in 1..Len(sch)}
        last(n) == CHOOSE i \in 1..Len(sch) :
                      /\ sch[i].name = n
                      /\ \A j \in 1..Len(sch) : sch[j].name = n => j <= i
    IN  [n \in names |-> sch[last(n)]]

\* what the loop body does to filtered_json for one field
Skip == [kind |-> "skip", val |-> JNull]
Set(v) == [kind |-> "set", val |-> v]
Raise == [kind |-> "raise", val |-> JNull]

RECURSIVE filter_json_to_schema(_, _)
RECURSIVE FilterItems(_, _)

\* [self.filter_json_to_schema(item, fields) for item in value
\*  if isinstance(item, dict)] as a list value; Raised when a call raises
FilterItems(items, fields) ==
    IF items = <<>> THEN JList(<<>>)
    ELSE IF ~IsDict(Head(items)) THEN FilterItems(Tail(items), fields)
    ELSE LET first == filter_json_to_schema(Head(items), fields)
             rest == FilterItems(Tail(items), fields)
         IN  IF first = Raised \/ rest = Raised THEN Raised
             ELSE JList(<<first>> \o rest.v)

\* self.filter_json_to_schema(value, field_schema["fields"]) for a single
\* nested record
NestedRaw(value, fields) == value
Nested(value, fields) == filter_json_to_schema(value, fields)

\* [item for item in value if isinstance(item, (str, int, float, bool))]
PrimitiveItemsAll(items) == items
PrimitiveItems(items) ==
    SelectSeq(items, IsPrimitive)

\* one pass of the for loop: lines 116-155
FieldStep(obj, fs) ==
    LET value == DictGet(obj, fs.name)
    IN  IF value = Raised THEN Raise
        ELSE IF value = JNull
        THEN IF IsRequired(fs) THEN Set(JNull) ELSE Skip
        ELSE IF "type" \notin DOMAIN fs THEN Raise   \* KeyError
        ELSE IF fs.type = "RECORD" /\ "fields" \in DOMAIN fs
        THEN IF Mode(fs) = "REPEATED"
             THEN IF IsList(value)
                  THEN LET items == FilterItems(value.v, fs.fields)
                       IN  IF items = Raised THEN Raise ELSE Set(items)
                  ELSE Set(RepeatedNotList)
             ELSE IF IsDict(value)
                  THEN LET inner == Nested(value, fs.fields)
                       IN  IF inner = Raised THEN Raise ELSE Set(inner)
                  ELSE Set(JNull)
        ELSE IF Mode(fs) = "REPEATED"
        THEN IF IsList(value)
             THEN Set(JList(PrimitiveItems(value.v)))
             ELSE Set(RepeatedNotList)
        ELSE IF IsPrimitive(value) \/ value = JNull
             THEN Set(value)
             ELSE Set(JNull)

\* lines 109-157
filter_json_to_schema(obj, sch) ==
    IF ~IsDict(obj) THEN NotDictResult
    ELSE IF \E i \in 1..Len(sch) : "name" \notin DOMAIN sch[i]
    THEN Raised   \* KeyError
    ELSE LET schema_fields == SchemaFields(sch)
             step == [n \in DOMAIN schema_fields |->
                         FieldStep(obj, schema_fields[n])]
         IN  IF \E n \in DOMAIN step : step[n].kind = "raise" THEN Raised
             ELSE JObj([n \in {m \in DOMAIN step : step[m].kind = "set"}
                          |-> step[n].val])

InitProject ==
    /\ FetchIdle /\ InsertIdle /\ OthersIdle
    /\ json_obj \in TopInputs /\ schema \in Schemas
    /\ filtered = JNull /\ refiltered = JNull
    /\ pstep = "input"

\* cleaned = client.filter_json_to_schema(json_obj, schema)
Project ==
    /\ pstep = "input"
    /\ filtered' = filter_json_to_schema(json_obj, schema)
    /\ pstep' = "once"
    /\ UNCHANGED <<json_obj, schema, refiltered>>
    /\ UNCHANGED exceptProject

\* client.filter_json_to_schema(cleaned, schema), when the first call
\* returned
Reproject ==
    /\ pstep = "once" /\ filtered # Raised
    /\ refiltered' = filter_json_to_schema(filtered, schema)
    /\ pstep' = "twice"
    /\ UNCHANGED <<json_obj, schema, filtered>>
    /\ UNCHANGED exceptProject

NextProject == Project \/ Reproject

SpecProject == InitProject /\ [][NextProject]_vars

(***************************************************************************)
(* BigQueryClient.insert_rows_json                                         *)
(***************************************************************************)
RowIds == {"r1", "r2"}
Row(id, stamped) == [id |-> id, record_load_time |-> stamped]
InputRows == SeqsUpTo({Row(id, FALSE) : id \in RowIds}, MaxRows)

\* what one client.insert_rows_json call can come to: no errors, a list of
\* errors, an exception, an exception after the rows were stored
InsertOutcomes == {"ok", "errors", "raises", "raises_stored"}

\* row['record_load_time'] = ... for every row: lines 78-80
Stamp(rows) == [k \in 1..Len(rows) |-> Row(rows[k].id, TRUE)]

\* json_rows[i:i + chunk_size]
ChunkOneShort(rows, from, size) ==
    SubSeq(rows, from + 1, Min(from + size - 1, Len(rows)))
Chunk(rows, from, size) == SubSeq(rows, from + 1, Min(from + size, Len(rows)))

\* the call raised, or returned errors and `if errors` raised RuntimeError
ChunkFailedOnlyRaise(outcome) == outcome \in {"raises", "raises_stored"}
ChunkFailed(outcome) == outcome # "ok"

\* insert_rows_json(dataset_id, table_id, rows, stamp, size) up to the
\* first chunk: lines 78-88
CallInsertRows(rows, size, stamp, tableFound) ==
    /\ ins_pc = "idle"
    /\ json_rows' = IF stamp THEN Stamp(rows) ELSE rows
    /\ chunk_size' = size
    /\ ins_pc' = IF ~tableFound THEN "raised"      \* get_table raised
                 ELSE IF size = 0 THEN "raised"    \* range() step 0
                 ELSE IF Len(rows) = 0 THEN "done" \* empty range
                 ELSE "loop"
    /\ UNCHANGED <<ins_i, calls, table>>
    /\ UNCHANGED exceptInsert

\* one pass of the for loop: lines 88-99
InsertChunk(outcome) ==
    /\ ins_pc = "loop"
    /\ LET chunk == Chunk(json_rows, ins_i, chunk_size)
       IN  /\ calls' = Append(calls, [chunk |-> chunk, outcome |-> outcome,
                                       number |-> (ins_i \div chunk_size) + 1])
           /\ table' = IF outcome \in {"ok", "raises_stored"}
                       THEN table \o chunk ELSE table
    /\ IF ChunkFailed(outcome)
       THEN ins_pc' = "raised" /\ ins_i' = ins_i
       ELSE /\ ins_i' = ins_i + chunk_size
            /\ ins_pc' = IF ins_i + chunk_size >= Len(json_rows) THEN "done"
                         ELSE "loop"
    /\ UNCHANGED <<json_rows, chunk_size>>
    /\ UNCHANGED exceptInsert

InitInsert == FetchIdle /\ ProjIdle /\ InsertIdle /\ OthersIdle

NextInsert ==
    \/ \E rows \in InputRows, size \in 0..MaxChunk, stamp, found \in BOOLEAN :
          CallInsertRows(rows, size, stamp, found)
    \/ \E outcome \in InsertOutcomes : InsertChunk(outcome)

SpecInsert == InitInsert /\ [][NextInsert]_vars

(***************************************************************************)
(* DataformClient.run_workflow                                             *)
(***************************************************************************)
\* response.json().get('state') of a status check; "None" when absent
WorkflowStates == {"RUNNING", "None", "SUCCEEDED", "FAILED", "CANCELLED"}
\* seconds a request may take
Latencies == {0, 1}
PollIntervals == {1, 2}

\* status in ["SUCCEEDED", "FAILED", "CANCELLED"]
IsTerminalNoCancelled(status) == status \in {"SUCCEEDED", "FAILED"}
IsTerminal(status) == status \in {"SUCCEEDED", "FAILED", "CANCELLED"}

\* elapsed_time > timeout
TimedOutAtLimit(elapsed_time, limit) == elapsed_time >= limit
TimedOut(elapsed_time, limit) == elapsed_time > limit

\* one line of the observer's log
Event(ev, val, at) == [ev |-> ev, val |-> val, at |-> at]
StatusChecks(l) == {k \in 1..Len(l) : l[k].ev = "status"}

\* run_workflow(..., timeout = t, poll_interval = p, transpile_only = tr)
CallRunWorkflow(t, p, tr) ==
    /\ wf_pc = "idle"
    /\ wf_pc' = "compile"
    /\ timeout' = t /\ poll_interval' = p /\ transpile_only' = tr
    /\ UNCHANGED <<start_time, clock, wf_result, wf_log>>
    /\ UNCHANGED exceptFlow

\* lines 147-151: get_compilation_result
FetchCompilationIgnored(ok, d) ==
    /\ wf_pc = "compile"
    /\ clock' = clock + d
    /\ wf_log' = Append(wf_log, Event("compilation", IF ok THEN "ok" ELSE "error",
                                      clock + d))
    /\ wf_pc' = "start"
    /\ UNCHANGED <<wf_result, timeout, poll_interval, transpile_only,
                   start_time>>
    /\ UNCHANGED exceptFlow
FetchCompilation(ok, d) ==
    /\ wf_pc = "compile"
    /\ clock' = clock + d
    /\ wf_log' = Append(wf_log, Event("compilation", IF ok THEN "ok" ELSE "error",
                                      clock + d))
    /\ IF ok THEN wf_pc' = "start" /\ UNCHANGED wf_result
       ELSE wf_pc' = "raised" /\ wf_result' = "Exception"
    /\ UNCHANGED <<timeout, poll_interval, transpile_only, start_time>>
    /\ UNCHANGED exceptFlow

\* if transpile_only (line 161)
ReturnsEarlyNever(tr) == FALSE
ReturnsEarly(tr) == tr

\* lines 155-165: start_workflow, then either the transpile_only return or
\* start_time = time.time()
StartWorkflow(ok, d) ==
    /\ wf_pc = "start"
    /\ clock' = clock + d
    /\ wf_log' = Append(wf_log, Event("start", IF ok THEN "ok" ELSE "error",
                                      clock + d))
    /\ IF ~ok THEN /\ wf_pc' = "raised" /\ wf_result' = "Exception"
                   /\ UNCHANGED start_time
       ELSE IF ReturnsEarly(transpile_only)
       THEN wf_pc' = "details" /\ UNCHANGED <<wf_result, start_time>>
       ELSE /\ wf_pc' = "poll" /\ start_time' = clock + d
            /\ UNCHANGED wf_result
    /\ UNCHANGED <<timeout, poll_interval, transpile_only>>
    /\ UNCHANGED exceptFlow

\* line 162: return self.get_workflow_details(...); a RequestException of
\* that call is not caught here
TranspileDetails(ok) ==
    /\ wf_pc = "details"
    /\ wf_log' = Append(wf_log, Event("details", IF ok THEN "ok" ELSE "error",
                                      clock))
    /\ IF ok THEN wf_pc' = "returned" /\ wf_result' = "details"
       ELSE wf_pc' = "raised" /\ wf_result' = "RequestException"
    /\ UNCHANGED <<timeout, poll_interval, transpile_only, start_time, clock>>
    /\ UNCHANGED exceptFlow

\* what a pass of the loop does with the status it read, lines 171-181:
\* the terminal statuses are handled before the timeout is tested
OutcomeTimeoutFirst(status, elapsed_time, limit) ==
    IF TimedOut(elapsed_time, limit) THEN "timeout"
    ELSE IF IsTerminal(status) THEN "terminal"
    ELSE "sleep"
Outcome(status, elapsed_time, limit) ==
    IF IsTerminal(status) THEN "terminal"
    ELSE IF TimedOut(elapsed_time, limit) THEN "timeout"
    ELSE "sleep"

\* the requests run_workflow makes between deciding to raise (lines 175,
\* 179) and raising: none, cancel_workflow is not called
BeforeRaisingCancel == <<"cancel">>
BeforeRaising == <<>>
Requests(kinds, at) == [k \in 1..Len(kinds) |-> Event(kinds[k], "ok", at)]

\* one pass of the while True loop, lines 166-186: a status check that
\* took d seconds and answered status ("error": the request raised), the
\* details request a terminal status leads to, the timeout test, the sleep
CheckStatus(status, d, detailsOk) ==
    /\ wf_pc = "poll"
    /\ Cardinality(StatusChecks(wf_log)) < MaxChecks
    /\ LET now == clock + d
           checked == Append(wf_log, Event("status", status, now))
           details == Event("details", IF detailsOk THEN "ok" ELSE "error", now)
       IN  IF status = "error"
           THEN /\ wf_pc' = "raised" /\ wf_result' = "Exception"
                /\ wf_log' = checked /\ clock' = now
           ELSE IF Outcome(status, now - start_time, timeout) = "terminal"
           THEN /\ wf_log' = IF status = "SUCCEEDED"
                               THEN Append(checked, details)
                               ELSE Append(checked, details)
                                    \o Requests(BeforeRaising, now)
                /\ clock' = now
                /\ IF status = "SUCCEEDED" /\ detailsOk
                   THEN wf_pc' = "returned" /\ wf_result' = "details"
                   ELSE wf_pc' = "raised" /\ wf_result' = "Exception"
           ELSE IF Outcome(status, now - start_time, timeout) = "timeout"
           THEN /\ wf_pc' = "raised" /\ wf_result' = "TimeoutError"
                /\ wf_log' = checked \o Requests(BeforeRaising, now)
                /\ clock' = now
           ELSE /\ wf_log' = Append(checked, Event("sleep", "ok",
                                                   now + poll_interval))
                /\ clock' = now + poll_interval
                /\ UNCHANGED <<wf_pc, wf_result>>
    /\ UNCHANGED <<timeout, poll_interval, transpile_only, start_time>>
    /\ UNCHANGED exceptFlow

InitFlow == FetchIdle /\ ProjIdle /\ InsertIdle /\ OthersIdle

NextFlow ==
    \/ \E t \in 0..MaxTimeout, p \in PollIntervals, tr \in BOOLEAN :
          CallRunWorkflow(t, p, tr)
    \/ \E ok \in BOOLEAN, d \in Latencies : FetchCompilation(ok, d)
    \/ \E ok \in BOOLEAN, d \in Latencies : StartWorkflow(ok, d)
    \/ \E ok \in BOOLEAN : TranspileDetails(ok)
    \/ \E status \in WorkflowStates \cup {"error"}, d \in Latencies,
          ok \in BOOLEAN : CheckStatus(status, d, ok)

SpecFlow == InitFlow /\ [][NextFlow]_vars

(***************************************************************************)
(* ColabClient                                                             *)
(***************************************************************************)
\* credentials.refresh(request) that succeeded: a new token, valid again
RefreshedCredentials == [set |-> TRUE, valid |-> TRUE, token |-> minted + 1]

\* self.credentials and not self.credentials.valid
NeedsRefreshNever == FALSE
NeedsRefresh == credentials.set /\ ~credentials.valid

\* generate_credentials: "ok"; "early": an exception before line 60;
\* "refresh": the new credentials are stored and their refresh raises
GenerateCredentials(outcome) ==
    /\ CASE outcome = "ok" ->
              /\ minted < MaxTokens
              /\ credentials' = RefreshedCredentials
              /\ access_token' = minted + 1
              /\ minted' = minted + 1
         [] outcome = "early" ->
              UNCHANGED <<credentials, access_token, minted>>
         [] outcome = "refresh" ->
              /\ credentials' = [set |-> TRUE, valid |-> FALSE, token |-> NoToken]
              /\ UNCHANGED <<access_token, minted>>
    /\ UNCHANGED token_call
    /\ UNCHANGED exceptToken

\* the token of the credentials expires: credentials.valid becomes False
Expire ==
    /\ credentials.set /\ credentials.valid
    /\ credentials' = [credentials EXCEPT !.valid = FALSE]
    /\ UNCHANGED <<access_token, minted, token_call>>
    /\ UNCHANGED exceptToken

\* refresh_if_needed, lines 84-87; ok: credentials.refresh did not raise
RefreshIfNeeded(ok) ==
    /\ IF NeedsRefresh /\ ok
       THEN /\ minted < MaxTokens
            /\ credentials' = RefreshedCredentials
            /\ access_token' = minted + 1
            /\ minted' = minted + 1
       ELSE UNCHANGED <<credentials, access_token, minted>>
    /\ UNCHANGED token_call
    /\ UNCHANGED exceptToken

\* get_access_token, lines 99-102
GetAccessToken(ok) ==
    /\ IF ~credentials.set
       THEN /\ UNCHANGED <<credentials, access_token, minted>>
            /\ token_call' = [outcome |-> "raised", refreshed |-> FALSE,
                              value |-> NoToken,
                              pre |-> credentials, pre_token |-> access_token,
                              post |-> credentials, post_token |-> access_token]
       ELSE IF NeedsRefresh
       THEN IF ok
            THEN /\ minted < MaxTokens
                 /\ credentials' = RefreshedCredentials
                 /\ access_token' = minted + 1
                 /\ minted' = minted + 1
                 /\ token_call' = [outcome |-> "returned", refreshed |-> TRUE,
                                   value |-> minted + 1,
                                   pre |-> credentials,
                                   pre_token |-> access_token,
                                   post |-> RefreshedCredentials,
                                   post_token |-> minted + 1]
            ELSE /\ UNCHANGED <<credentials, access_token, minted>>
                 /\ token_call' = [outcome |-> "raised", refreshed |-> TRUE,
                                   value |-> NoToken,
                                   pre |-> credentials,
                                   pre_token |-> access_token,
                                   post |-> credentials,
                                   post_token |-> access_token]
       ELSE /\ UNCHANGED <<credentials, access_token, minted>>
            /\ token_call' = [outcome |-> "returned", refreshed |-> FALSE,
                              value |-> access_token,
                              pre |-> credentials, pre_token |-> access_token,
                              post |-> credentials, post_token |-> access_token]
    /\ UNCHANGED exceptToken

InitToken == FetchIdle /\ ProjIdle /\ InsertIdle /\ OthersIdle

NextToken ==
    \/ \E outcome \in {"ok", "early", "refresh"} : GenerateCredentials(outcome)
    \/ Expire
    \/ \E ok \in BOOLEAN : RefreshIfNeeded(ok)
    \/ \E ok \in BOOLEAN : GetAccessToken(ok)

SpecToken == InitToken /\ [][NextToken]_vars

(***************************************************************************)
(* AdminSDKClient.get_usage_report, get_user_usage_report,                 *)
(* get_activity_events                                                     *)
(***************************************************************************)
ReportFetchers == {"get_usage_report", "get_user_usage_report",
                   "get_activity_events"}
\* the key of the result the fetcher reads its records from
RecordsKey(f) == IF f = "get_activity_events" THEN "items" ELSE "usageReports"

\* results of .execute(): HttpError, or a body that may hold the records
\* key (key = "absent" when it does not) and a nextPageToken ("None" when
\* the key is absent)
PageTokens == {"None", "", "T1", "T2"}
HttpError == [kind |-> "HttpError", key |-> "absent", items |-> <<>>,
              token |-> "None"]
ReportBody(key, items, token) ==
    [kind |-> "ok", key |-> key, items |-> items, token |-> token]
ReportResults(f) ==
    {HttpError}
    \cup {ReportBody(RecordsKey(f), b, t) : b \in Bodies, t \in PageTokens}
    \cup {ReportBody("absent", <<>>, t) : t \in PageTokens}

\* not next_page_token
NoMorePagesOnlyNone(token) == token = "None"
NoMorePages(token) == token \in {"None", ""}

ReturnedNone == [t |-> "None", v |-> <<>>]
ReturnedList(l) == [t |-> "list", v |-> l]

\* a call of one of the three fetchers
CallReportFetcher(f) ==
    /\ rep_pc = "idle"
    /\ rep_pc' = "loop" /\ fetcher' = f
    /\ all_records' = <<>> /\ next_page_token' = "None"
    /\ UNCHANGED <<rep_result, rep_hist>>
    /\ UNCHANGED exceptReport

\* one pass of the while True loop and what follows when it is left
ReportPage(results) ==
    /\ rep_pc = "loop"
    /\ Len(rep_hist) < MaxPages
    /\ rep_hist' = Append(rep_hist, [sent |-> next_page_token,
                                     results |-> results])
    /\ IF results.kind = "HttpError"
       THEN /\ rep_pc' = "done" /\ rep_result' = ReturnedNone
            /\ UNCHANGED <<all_records, next_page_token>>
       ELSE LET extended == IF results.key = RecordsKey(fetcher)
                            THEN all_records \o results.items
                            ELSE all_records
            IN  /\ all_records' = extended
                /\ next_page_token' = results.token
                /\ IF NoMorePages(results.token)
                   THEN rep_pc' = "done" /\ rep_result' = ReturnedList(extended)
                   ELSE UNCHANGED <<rep_pc, rep_result>>
    /\ UNCHANGED fetcher
    /\ UNCHANGED exceptReport

InitReport == FetchIdle /\ ProjIdle /\ InsertIdle /\ OthersIdle

NextReport ==
    \/ \E f \in ReportFetchers : CallReportFetcher(f)
    \/ \E results \in ReportResults(fetcher) : ReportPage(results)

SpecReport == InitReport /\ [][NextReport]_vars

(***************************************************************************)
(* GoogleOAuthTokenFetcherInteractive.fetch_token                          *)
(***************************************************************************)
\* creds.valid
Valid(c) == c.kind = "creds" /\ ~c.expired

\* creds and creds.expired and creds.refresh_token
Refreshable(c) == c.kind = "creds" /\ c.expired /\ c.rt

\* the code was parsed from the pasted URL and flow.fetch_token(code=code)
\* did not raise: lines 80-94
CodeExchangedAnyCode(hasCode, exchangeOk) == hasCode
CodeExchanged(hasCode, exchangeOk) == hasCode /\ exchangeOk

\* os.remove(self.token_file) after a file that did not load, line 54
AfterLoadErrorKept(file) == file
AfterLoadError(file) == AbsentFile

\* fetch_token, lines 43-99. refreshOk: creds.refresh does not raise;
\* hasCode: the pasted URL has a code parameter; exchangeOk: the code
\* exchange and the write of the token file do not raise; rt: the new
\* credentials hold a refresh token
FetchToken(refreshOk, hasCode, exchangeOk, rt) ==
    LET loaded == IF token_file.kind = "creds" THEN token_file ELSE NoCreds
        file1 == IF token_file.kind = "corrupt" THEN AfterLoadError(token_file)
                 ELSE token_file
        tries == ~Valid(loaded) /\ Refreshable(loaded)
        refreshed == IF tries /\ refreshOk
                     THEN Creds(loaded.id, FALSE, loaded.rt)
                     ELSE IF tries THEN NoCreds ELSE loaded
        file2 == IF tries /\ ~refreshOk THEN AbsentFile ELSE file1
        flow == ~Valid(loaded) /\ refreshed = NoCreds
        granted == Creds(grants + 1, FALSE, rt)
        entry(result, file, stored) ==
            [result |-> result, flow |-> flow,
             refresh |-> IF ~tries THEN "no"
                         ELSE IF refreshOk THEN "ok" ELSE "failed",
             pasted |-> flow /\ hasCode,
             exchanged |-> flow /\ hasCode /\ exchangeOk,
             file_before |-> token_file, file_after |-> file,
             stored_before |-> oauth_credentials, stored_after |-> stored]
    IN  /\ IF ~flow
           THEN \* self.credentials = creds; return creds
                /\ token_file' = file2
                /\ oauth_credentials' = refreshed
                /\ oauth_call' = entry("creds", file2, refreshed)
                /\ UNCHANGED grants
           ELSE IF CodeExchanged(hasCode, exchangeOk)
           THEN /\ grants < MaxGrants
                /\ grants' = grants + 1
                /\ token_file' = granted
                /\ oauth_credentials' = granted
                /\ oauth_call' = entry("creds", granted, granted)
           ELSE \* return None
                /\ token_file' = file2
                /\ oauth_call' = entry("None", file2, oauth_credentials)
                /\ UNCHANGED <<oauth_credentials, grants>>
        /\ UNCHANGED exceptOauth

\* time passes: the token stored in the file expires
ExpireFile ==
    /\ token_file.kind = "creds" /\ ~token_file.expired
    /\ token_file' = [token_file EXCEPT !.expired = TRUE]
    /\ UNCHANGED <<oauth_credentials, grants, oauth_call>>
    /\ UNCHANGED exceptOauth

\* the token file is damaged on disk
DamageFile ==
    /\ token_file.kind = "creds"
    /\ token_file' = CorruptFile
    /\ UNCHANGED <<oauth_credentials, grants, oauth_call>>
    /\ UNCHANGED exceptOauth

InitOauth == FetchIdle /\ ProjIdle /\ InsertIdle /\ OthersIdle

NextOauth ==
    \/ \E refreshOk, hasCode, exchangeOk, rt \in BOOLEAN :
          FetchToken(refreshOk, hasCode, exchangeOk, rt)
    \/ ExpireFile
    \/ DamageFile

SpecOauth == InitOauth /\ [][NextOauth]_vars

(***************************************************************************)
(* Observations on hist                                                    *)
(***************************************************************************)
Called == client # "none"
Last(h) == h[Len(h)]
IsPage(e) == e.resp.status = 200
Is429(e) == e.resp.status = 429
AllPages(h) == \A i \in 1..Len(h) : IsPage(h[i])

RECURSIVE ServedRecords(_)
\* the record arrays of the 200 responses, concatenated in arrival order
ServedRecords(h) ==
    IF h = <<>> THEN <<>>
    ELSE IF IsPage(Head(h)) THEN Head(h).resp.body \o ServedRecords(Tail(h))
    ELSE ServedRecords(Tail(h))

\* request i went where the page before it pointed
FollowsLinks(h) ==
    \A i \in 1..Len(h) :
        h[i].url = IF i = 1 THEN BaseUrl ELSE h[i-1].resp.next

\* the number of 429 responses that came directly before request i
Consecutive429Before(h, i) ==
    LET nonLimited == {j \in 1..(i-1) : ~Is429(h[j])}
        lastOther == IF nonLimited = {} THEN 0
                     ELSE CHOOSE j \in nonLimited : \A k \in nonLimited : k <= j
    IN  i - 1 - lastOther

\* pages i < j with nothing but 429 responses between them
ConsecutivePages(h, i, j) ==
    /\ i < j /\ IsPage(h[i]) /\ IsPage(h[j])
    /\ \A k \in (i+1)..(j-1) : Is429(h[k])

(***************************************************************************)
(* C1  Pagination completeness                                             *)
(***************************************************************************)
\* while every page so far carried a next link the fetch goes on to the
\* next page, following that link; once a page carries none the fetch is
\* over and returns the concatenation of all pages
CompleteTraversal ==
    /\ FollowsLinks(hist)
    /\ Last(hist).resp.next # NoLink => pc = "loop"
    /\ Last(hist).resp.next = NoLink =>
          /\ pc = "done"
          /\ logs = ServedRecords(hist)

\* C1 as stated: for any sequence of pages all answered with 200 of which
\* only the last carries no next link, either fetcher fetches every page
\* once and returns the concatenation of the pages' records in order.
C1_AsStated ==
    (Called /\ hist # <<>> /\ AllPages(hist)) => CompleteTraversal

\* fetch_system_logs also stops at an empty page and at a repeated link
NoEmptyPage(h) == \A i \in 1..Len(h) : h[i].resp.body # <<>>
NoRepeatedLink(h) == \A i \in 2..Len(h) : h[i].resp.next # h[i-1].resp.next

\* C1 amended: the statement holds for fetch_audit_logs; for
\* fetch_system_logs it holds when moreover every page has at least one
\* record and no page carries the same next link as the page before it.
C1_PaginationComplete ==
    (/\ Called /\ hist # <<>> /\ AllPages(hist)
     /\ client = "okta" => NoEmptyPage(hist) /\ NoRepeatedLink(hist))
    => CompleteTraversal

\* three pages fetched by fetch_system_logs, the last without a link
C1_Witness ==
    /\ client = "okta" /\ pc = "done" /\ reason = "completed"
    /\ Len(hist) = 3 /\ AllPages(hist)
    /\ Len(logs) >= 4

(***************************************************************************)
(* C2  Stalled-link guard                                                  *)
(***************************************************************************)
\* C2: in fetch_system_logs, when two consecutive pages carry the same next
\* link, the second of them is the last request of the traversal, the fetch
\* has ended, and the records of both pages are in the result.
C2_StalledGuard ==
    client = "okta" =>
        \A i, j \in 1..Len(hist) :
            (/\ ConsecutivePages(hist, i, j)
             /\ hist[i].resp.next = hist[j].resp.next)
            => /\ j = Len(hist)
               /\ pc = "done"
               /\ logs = ServedRecords(hist)

\* two non-empty pages with the same link, stopped as stalled
C2_Witness ==
    /\ client = "okta" /\ reason = "stalled" /\ pc = "done"
    /\ \E i, j \in 1..Len(hist) :
          /\ ConsecutivePages(hist, i, j)
          /\ hist[i].resp.next = hist[j].resp.next
          /\ hist[i].resp.body # <<>> /\ hist[j].resp.body # <<>>

(***************************************************************************)
(* C3  Backoff bound                                                       *)
(***************************************************************************)
Only429With(h, r) == \A i \in 1..Len(h) : h[i].resp = Resp429(RaSecs(r))
Sleeps(h) == {i \in 1..Len(h) : h[i].slept}

\* C3: while the server has answered every request with 429 and
\* Retry-After: r, a fetch with budget n has slept after each of its first
\* n requests, each time at least r seconds, and the request number n+1 is
\* its last: it ends there without sleeping.
C3_BackoffBound ==
    \A r \in RetryAfterSecs :
        (Called /\ Only429With(hist, r)) =>
            /\ Len(hist) <= max_retries + 1
            /\ Len(hist) <= max_retries => pc = "loop"
            /\ Len(hist) = max_retries + 1 => pc = "done"
            /\ Sleeps(hist) = {i \in 1..Len(hist) : i <= max_retries}
            /\ \A i \in Sleeps(hist) : hist[i].wait >= r

\* budget 2 used up: three requests, two sleeps
C3_Witness ==
    /\ \E r \in RetryAfterSecs : Only429With(hist, r)
    /\ max_retries = 2 /\ Len(hist) = 3
    /\ Cardinality(Sleeps(hist)) = 2
    /\ pc = "done" /\ reason = "rate_limited_exhausted"

(***************************************************************************)
(* C4  Backoff reset                                                       *)
(***************************************************************************)
\* C4: after a 200 response with records the retry counter is 0, and a 429
\* is retried exactly when fewer than max_retries 429 responses came
\* directly before it, however many 429s earlier pages used up.
C4_BackoffReset ==
    /\ (hist # <<>> /\ IsPage(Last(hist)) /\ Last(hist).resp.body # <<>>)
          => retry_attempts = 0
    /\ \A i \in 1..Len(hist) :
          (Is429(hist[i]) /\ hist[i].resp.ra.kind # "date") =>
              (hist[i].slept <=>
                  Consecutive429Before(hist, i) < max_retries)

\* the budget was used up before a page, and a 429 after that page was
\* retried again
C4_Witness ==
    /\ max_retries = 1 /\ Len(hist) = 3
    /\ Is429(hist[1]) /\ hist[1].slept
    /\ IsPage(hist[2]) /\ hist[2].resp.body # <<>>
    /\ Is429(hist[3]) /\ hist[3].slept

(***************************************************************************)
(* Observations on projections                                             *)
(***************************************************************************)
Projected == pstep \in {"once", "twice"}
Returned == Projected /\ filtered # Raised
DeclaresRequired(fs) == "mode" \in DOMAIN fs /\ fs.mode = "REQUIRED"
HasChildren(fs) == "fields" \in DOMAIN fs

\* the value a mapping holds under a key, JNull when the key is missing
ValueAt(obj, key) == IF key \in DOMAIN obj.v THEN obj.v[key] ELSE JNull

RECURSIVE DropNullableNulls(_, _)
\* v without the keys that hold null under a field that is not REQUIRED,
\* at every nesting level the schema describes
DropNullableNulls(v, sch) ==
    IF v.t # "obj" THEN v
    ELSE LET spec(n) == CHOOSE fs \in {sch[i] : i \in 1..Len(sch)} : fs.name = n
             declared == {sch[i].name : i \in 1..Len(sch)}
             dropped == {n \in DOMAIN v.v \cap declared :
                           v.v[n] = JNull /\ ~DeclaresRequired(spec(n))}
             inner(n) ==
                 IF n \notin declared \/ ~HasChildren(spec(n)) THEN v.v[n]
                 ELSE IF v.v[n].t = "obj"
                 THEN DropNullableNulls(v.v[n], spec(n).fields)
                 ELSE IF v.v[n].t = "list"
                 THEN JList([i \in 1..Len(v.v[n].v) |->
                        DropNullableNulls(v.v[n].v[i], spec(n).fields)])
                 ELSE v.v[n]
         IN  JObj([n \in (DOMAIN v.v) \ dropped |-> inner(n)])

RECURSIVE OnlyDeclaredKeys(_, _)
\* every key of v, and of the mappings below it, is a field name of the
\* schema that matches its level
OnlyDeclaredKeys(v, sch) ==
    v.t = "obj" =>
        \A n \in DOMAIN v.v :
            \E i \in 1..Len(sch) :
                /\ sch[i].name = n
                /\ HasChildren(sch[i]) =>
                      /\ v.v[n].t = "obj" =>
                            OnlyDeclaredKeys(v.v[n], sch[i].fields)
                      /\ v.v[n].t = "list" =>
                            \A k \in 1..Len(v.v[n].v) :
                                OnlyDeclaredKeys(v.v[n].v[k], sch[i].fields)

(***************************************************************************)
(* C5  Projection idempotence                                              *)
(***************************************************************************)
\* C5 as stated: projecting a projection again yields the same value.
C5_AsStated == pstep = "twice" => refiltered = filtered

\* the mapping that holds null under every REQUIRED field of sch
RequiredNulls(sch) ==
    JObj([n \in {sch[i].name : i \in {j \in 1..Len(sch) :
                                          DeclaresRequired(sch[j])}}
            |-> JNull])

\* C5 amended: for a mapping input, projecting the projection again yields
\* the same value except that the keys which hold null under a field that
\* is not REQUIRED are gone, at every nesting level, so it is a no-op when
\* there is no such null; for an input that is not a mapping the second
\* projection holds null under every REQUIRED field; a third projection
\* never changes anything.
C5_Reprojection ==
    pstep = "twice" =>
        /\ json_obj.t = "obj" =>
              refiltered = DropNullableNulls(filtered, schema)
        /\ json_obj.t # "obj" => refiltered = RequiredNulls(schema)
        /\ filter_json_to_schema(refiltered, schema) = refiltered

\* a second projection that dropped a null and one that changed nothing
\* below a nested record
C5_Witness ==
    /\ pstep = "twice" /\ refiltered # filtered
    /\ "f" \in DOMAIN filtered.v /\ filtered.v["f"] = JNull
    /\ "f" \notin DOMAIN refiltered.v

(***************************************************************************)
(* C6  Projection totality                                                 *)
(***************************************************************************)
\* C6: with a well-formed schema the projection returns a value for every
\* input, and so does the projection of that value.
C6_Totality ==
    (Projected /\ WellFormed(schema)) =>
        /\ filtered # Raised
        /\ pstep = "twice" => refiltered # Raised

\* a list with items of the wrong type under a REPEATED RECORD field
C6_Witness ==
    /\ pstep = "once" /\ WellFormed(schema) /\ json_obj.t = "obj"
    /\ schema # <<>>
    /\ schema[1].type = "RECORD" /\ schema[1].mode = "REPEATED"
    /\ ValueAt(json_obj, "f").t = "list"
    /\ \E i \in 1..Len(ValueAt(json_obj, "f").v) :
          ValueAt(json_obj, "f").v[i].t # "obj"
    /\ filtered.t = "obj"

(***************************************************************************)
(* C7  Required-field nulling                                              *)
(***************************************************************************)
\* C7: for a mapping input, a schema field that is absent or null in the
\* input is in the output with value null when its mode is REQUIRED, and
\* is not a key of the output when its mode is NULLABLE or REPEATED.
C7_RequiredNulling ==
    (Returned /\ json_obj.t = "obj") =>
        \A i \in 1..Len(schema) :
            ValueAt(json_obj, schema[i].name) = JNull =>
                IF schema[i].mode = "REQUIRED"
                THEN /\ schema[i].name \in DOMAIN filtered.v
                     /\ filtered.v[schema[i].name] = JNull
                ELSE schema[i].name \notin DOMAIN filtered.v

\* both fields missing from the input: the REQUIRED one is nulled, the
\* other one left out
C7_Witness ==
    /\ pstep = "once" /\ json_obj.t = "obj" /\ Len(schema) = 2
    /\ DOMAIN json_obj.v \cap {"f", "g"} = {}
    /\ schema[1].mode # "REQUIRED" /\ schema[2].mode = "REQUIRED"
    /\ DOMAIN filtered.v = {"g"} /\ filtered.v["g"] = JNull

(***************************************************************************)
(* C8  Repeated field with a non-list value                                *)
(***************************************************************************)
\* C8: a REPEATED field, RECORD or primitive, whose input value is neither
\* null nor a list is set to the empty list in the output.
C8_RepeatedNonList ==
    (Returned /\ json_obj.t = "obj") =>
        \A i \in 1..Len(schema) :
            (/\ schema[i].mode = "REPEATED"
             /\ ValueAt(json_obj, schema[i].name).t \notin {"null", "list"})
            => /\ schema[i].name \in DOMAIN filtered.v
               /\ filtered.v[schema[i].name] = JList(<<>>)

\* a single mapping under a REPEATED RECORD field
C8_Witness ==
    /\ pstep = "once" /\ json_obj.t = "obj" /\ schema # <<>>
    /\ schema[1].mode = "REPEATED" /\ schema[1].type = "RECORD"
    /\ ValueAt(json_obj, "f").t = "obj"
    /\ filtered.v["f"] = JList(<<>>)

(***************************************************************************)
(* C9  No extra keys                                                       *)
(***************************************************************************)
\* C9: at every nesting level of the output, every key of a mapping is the
\* name of a field of the schema that matches that level.
C9_NoExtraKeys == Returned => OnlyDeclaredKeys(filtered, schema)

\* undeclared keys at the top and inside a nested record of the input, and
\* an output that kept the declared key of the nested record
C9_Witness ==
    /\ pstep = "once" /\ json_obj.t = "obj"
    /\ "u" \in DOMAIN json_obj.v
    /\ ValueAt(json_obj, "f").t = "obj"
    /\ DOMAIN ValueAt(json_obj, "f").v = {"k", "u"}
    /\ filtered.t = "obj" /\ ValueAt(filtered, "f").t = "obj"
    /\ DOMAIN ValueAt(filtered, "f").v = {"k"}

(***************************************************************************)
(* C10 Non-mapping top-level input                                         *)
(***************************************************************************)
\* C10: when the input is not a mapping the result is the empty mapping,
\* whatever the schema.
C10_NonMapping ==
    (Projected /\ json_obj.t # "obj") => filtered = JObj(EmptyMap)

\* a list projected onto a schema with a REQUIRED field
C10_Witness ==
    /\ pstep = "once" /\ json_obj.t = "list" /\ json_obj.v # <<>>
    /\ \E i \in 1..Len(schema) : schema[i].mode = "REQUIRED"
    /\ filtered = JObj(EmptyMap)

(***************************************************************************)
(* C11 HTTP failure is surfaced as an error                                *)
(***************************************************************************)
\* C11: when a page request is answered with a status that is neither 200
\* nor 429, the fetch ends with an exception and hands no records back.
C11_FailureRaises ==
    (hist # <<>> /\ Last(hist).resp.status \notin {200, 429}) =>
        pc = "raised"

(***************************************************************************)
(* C12 Rate-limit exhaustion returns a partial result                      *)
(***************************************************************************)
\* C12: when a 429 arrives while the retry counter equals the budget, the
\* fetch stops without raising, whatever the Retry-After header holds, and
\* returns the records of the pages fetched before, in order.
C12_ExhaustionPartial ==
    (/\ hist # <<>> /\ Is429(Last(hist))
     /\ Consecutive429Before(hist, Len(hist)) = max_retries)
    => /\ pc = "done" /\ reason = "rate_limited_exhausted"
       /\ ~Last(hist).slept
       /\ logs = ServedRecords(hist)

\* a page with records, then the budget used up on the next page
C12_Witness ==
    /\ pc = "done" /\ reason = "rate_limited_exhausted"
    /\ max_retries = 1 /\ Len(hist) = 3
    /\ IsPage(hist[1]) /\ Is429(hist[2]) /\ Is429(hist[3])
    /\ logs = hist[1].resp.body /\ logs # <<>>

(***************************************************************************)
(* C13 Order invariant of the accumulated result                           *)
(***************************************************************************)
\* C13: in every state of a fetch the accumulated list is the concatenation,
\* in arrival order, of the record arrays of the 200 responses received so
\* far: nothing is removed, reordered or de-duplicated, and a 429 or a
\* failed response adds nothing.
C13_OrderInvariant == Called => logs = ServedRecords(hist)

\* the same record arrived on two pages with a 429 between them and is in
\* the list twice
C13_Witness ==
    /\ Len(hist) = 3 /\ IsPage(hist[1]) /\ Is429(hist[2]) /\ IsPage(hist[3])
    /\ hist[1].resp.body = <<"a">> /\ hist[3].resp.body = <<"b", "a">>
    /\ logs = <<"a", "b", "a">>

(***************************************************************************)
(* Observations on insertions                                              *)
(***************************************************************************)
RECURSIVE SentRows(_)
\* the chunks of the calls, concatenated in call order
SentRows(cs) ==
    IF cs = <<>> THEN <<>> ELSE Head(cs).chunk \o SentRows(Tail(cs))

AllInserted(cs) == \A k \in 1..Len(cs) : cs[k].outcome = "ok"
CeilDiv(n, c) == (n + c - 1) \div c

(***************************************************************************)
(* C14 Chunked insertion partitions the rows                               *)
(***************************************************************************)
\* C14: while no chunk has failed, the chunks sent so far are the first
\* rows of the list cut into pieces of exactly chunk_size rows (the last
\* piece of the list may be shorter); when the insertion has returned,
\* ceil(n / chunk_size) calls were made and the chunks concatenated in call
\* order are the whole list.
C14_ChunksPartition ==
    (ins_pc \in {"loop", "done"} /\ AllInserted(calls)) =>
        LET n == Len(json_rows)
        IN  /\ SentRows(calls) = SubSeq(json_rows, 1, Len(SentRows(calls)))
            /\ \A k \in 1..Len(calls) :
                  /\ Len(calls[k].chunk) <= chunk_size
                  /\ Len(calls[k].chunk) >= 1
                  /\ k * chunk_size <= n => Len(calls[k].chunk) = chunk_size
                  /\ calls[k].number = k
            /\ ins_pc = "loop" => Len(SentRows(calls)) < n
            /\ ins_pc = "done" =>
                  /\ Len(calls) = CeilDiv(n, chunk_size)
                  /\ SentRows(calls) = json_rows
                  /\ table = json_rows

\* three rows in chunks of two: two calls, the second with one row
C14_Witness ==
    /\ ins_pc = "done" /\ Len(json_rows) = 3 /\ chunk_size = 2
    /\ Len(calls) = 2 /\ Len(calls[2].chunk) = 1
    /\ json_rows[1].id # json_rows[2].id

(***************************************************************************)
(* C15 Chunk failure aborts the insertion                                  *)
(***************************************************************************)
\* C15: a call that reports errors or raises is the last call of the
\* insertion, which then has raised; the chunks sent before it are still
\* in the table and the rows after it were never sent.
C15_FailureAborts ==
    \A k \in 1..Len(calls) :
        calls[k].outcome # "ok" =>
            LET before == SentRows(SubSeq(calls, 1, k - 1))
            IN  /\ k = Len(calls)
                /\ ins_pc = "raised"
                /\ table = IF calls[k].outcome = "raises_stored"
                           THEN before \o calls[k].chunk ELSE before
                /\ Len(SentRows(calls)) = Min(k * chunk_size, Len(json_rows))

\* the second of three chunks reported errors
C15_Witness ==
    /\ ins_pc = "raised" /\ Len(calls) = 2
    /\ calls[1].outcome = "ok" /\ calls[2].outcome = "errors"
    /\ table = calls[1].chunk
    /\ Len(json_rows) > 2 * chunk_size

(***************************************************************************)
(* Observations on run_workflow                                            *)
(***************************************************************************)
Polling == wf_pc # "idle" /\ ~transpile_only
LastCheck(l) == CHOOSE k \in StatusChecks(l) : \A m \in StatusChecks(l) : m <= k
Elapsed(l, k) == l[k].at - start_time

(***************************************************************************)
(* C16 run_workflow returns after SUCCEEDED and raises after FAILED        *)
(***************************************************************************)
\* C16: without transpile_only, run_workflow has returned the details only
\* if its last status check observed SUCCEEDED; a status check that
\* observed FAILED or CANCELLED made it raise; and a status check that
\* observed a terminal status is followed by no status check and no sleep.
C16_TerminalStatus ==
    Polling =>
        /\ wf_result = "details" =>
              /\ wf_pc = "returned"
              /\ StatusChecks(wf_log) # {}
              /\ wf_log[LastCheck(wf_log)].val = "SUCCEEDED"
        /\ \A k \in StatusChecks(wf_log) :
              /\ wf_log[k].val \in {"FAILED", "CANCELLED"} =>
                    wf_pc = "raised" /\ wf_result = "Exception"
              /\ wf_log[k].val \in {"SUCCEEDED", "FAILED", "CANCELLED"} =>
                    \A m \in (k+1)..Len(wf_log) :
                        wf_log[m].ev \notin {"status", "sleep"}

\* a run that polled twice and then saw CANCELLED
C16_Witness ==
    /\ Polling /\ wf_pc = "raised" /\ wf_result = "Exception"
    /\ Cardinality(StatusChecks(wf_log)) = 3
    /\ wf_log[LastCheck(wf_log)].val = "CANCELLED"

(***************************************************************************)
(* C17 run_workflow timeout                                                *)
(***************************************************************************)
AllChecksPending(l) ==
    \A k \in StatusChecks(l) : l[k].val \in {"RUNNING", "None"}

\* C17: while every status check has answered a non-terminal state, the
\* status check that completes more than timeout seconds after start_time
\* is the last one and makes run_workflow raise TimeoutError, and
\* TimeoutError is raised by no status check that completed earlier.
C17_Timeout ==
    (Polling /\ AllChecksPending(wf_log)) =>
        /\ \A k \in StatusChecks(wf_log) :
              Elapsed(wf_log, k) > timeout =>
                  /\ k = Len(wf_log)
                  /\ wf_pc = "raised" /\ wf_result = "TimeoutError"
        /\ wf_result = "TimeoutError" =>
              /\ StatusChecks(wf_log) # {}
              /\ Elapsed(wf_log, LastCheck(wf_log)) > timeout
        /\ StatusChecks(wf_log) # {} => wf_result \in {"none", "TimeoutError"}

\* a status check that completed exactly timeout seconds after start_time
\* was followed by a sleep, the next one raised TimeoutError
C17_Witness ==
    /\ Polling /\ wf_result = "TimeoutError" /\ timeout > 0
    /\ start_time > 0
    /\ \E k \in StatusChecks(wf_log) :
          /\ Elapsed(wf_log, k) = timeout
          /\ wf_log[k+1].ev = "sleep"

(***************************************************************************)
(* C18 get_access_token                                                    *)
(***************************************************************************)
\* C18: a get_access_token call made before any credentials exist raised,
\* attempted no refresh and left credentials and access_token as they
\* were; a call made with credentials attempted a refresh exactly when
\* they were not valid, left valid credentials alone, raised only when
\* that refresh raised, and returned the token of the credentials as
\* they are after the call.
C18_AccessToken ==
    token_call.outcome # "none" =>
        IF ~token_call.pre.set
        THEN /\ token_call.outcome = "raised"
             /\ ~token_call.refreshed
             /\ token_call.post = token_call.pre
             /\ token_call.post_token = token_call.pre_token
        ELSE /\ token_call.refreshed <=> ~token_call.pre.valid
             /\ token_call.pre.valid =>
                   /\ token_call.outcome = "returned"
                   /\ token_call.post = token_call.pre
             /\ token_call.outcome = "returned" =>
                   /\ token_call.value = token_call.post.token
                   /\ token_call.value # NoToken
                   /\ token_call.post.valid

\* a call that found stored credentials whose first refresh had raised,
\* while access_token still held an older token
C18_Witness ==
    /\ token_call.outcome = "returned" /\ token_call.refreshed
    /\ token_call.pre.token = NoToken /\ token_call.pre_token # NoToken
    /\ token_call.value = token_call.post.token

(***************************************************************************)
(* C19 AdminSDKClient report fetchers                                      *)
(***************************************************************************)
RECURSIVE ReportRecords(_, _)
ReportRecords(h, n) ==
    IF n = 0 THEN <<>>
    ELSE ReportRecords(h, n - 1)
         \o (IF h[n].results.key = "absent" THEN <<>> ELSE h[n].results.items)
Failed(h) == \E k \in 1..Len(h) : h[k].results.kind = "HttpError"
EndsPaging(r) == r.kind = "ok" /\ r.token \in {"None", ""}

\* C19: a report fetcher that has returned gave None if a page request
\* raised HttpError, whatever the earlier pages held, and otherwise the
\* concatenation of the records of all its pages; it requests no page after
\* an HttpError or after a result whose nextPageToken is absent or empty,
\* and returns only after one of the two.
C19_ReportPaging ==
    /\ \A k \in 1..Len(rep_hist) :
          (rep_hist[k].results.kind = "HttpError"
             \/ EndsPaging(rep_hist[k].results)) =>
              k = Len(rep_hist) /\ rep_pc = "done"
    /\ rep_pc = "done" =>
          /\ rep_hist # <<>>
          /\ IF Failed(rep_hist)
             THEN rep_result = ReturnedNone
             ELSE /\ rep_result = ReturnedList(ReportRecords(rep_hist,
                                                             Len(rep_hist)))
                  /\ EndsPaging(rep_hist[Len(rep_hist)].results)

\* records were fetched and then lost to an HttpError
C19_Witness ==
    /\ rep_pc = "done" /\ rep_result = ReturnedNone
    /\ Len(rep_hist) = 3 /\ rep_hist[1].results.items # <<>>
    /\ rep_hist[3].sent = rep_hist[2].results.token

\* two pages of records returned, the second with an empty nextPageToken
C19_WitnessPages ==
    /\ rep_pc = "done" /\ ~Failed(rep_hist)
    /\ Len(rep_hist) = 2 /\ rep_hist[2].results.token = ""
    /\ Len(rep_result.v) = 3

(***************************************************************************)
(* C20 Backoff wait formula                                                *)
(***************************************************************************)
\* the exponential component after a consecutive 429 responses
Exponential(a) == IF a >= 6 THEN 60 ELSE 2 ^ a
HeaderValue(h) == IF h.resp.ra.kind = "absent" THEN 1 ELSE h.resp.ra.secs

\* C20: every sleep after a 429 that came after a consecutive 429
\* responses and carried Retry-After r (1 when absent) lasted
\* max(r, min(2^a, 60)) seconds: at least 1, at least r, and more than 60
\* only when r is.
C20_WaitFormula ==
    \A i \in 1..Len(hist) :
        hist[i].slept =>
            LET a == Consecutive429Before(hist, i)
                r == HeaderValue(hist[i])
            IN  /\ Is429(hist[i])
                /\ hist[i].wait = Max(r, Exponential(a))
                /\ hist[i].wait >= 1
                /\ hist[i].wait >= r
                /\ hist[i].wait > 60 => hist[i].wait = r

\* the seventh 429 in a row, without a header, slept 60 seconds and not 64;
\* an earlier one with Retry-After: 61 slept 61
C20_Witness ==
    /\ Len(hist) >= 7
    /\ hist[7].slept /\ Consecutive429Before(hist, 7) = 6
    /\ hist[7].resp.ra = RaAbsent /\ hist[7].wait = 60
    /\ \E i \in 1..6 : hist[i].slept /\ hist[i].wait = 61

(***************************************************************************)
(* C21 A 429 retry does not advance                                        *)
(***************************************************************************)
Requested == Len(hist') = Len(hist) + 1

\* C21: a step that answers a request with 429 and retries it changes the
\* retry counter by exactly 1 and nothing else (the URL, the parameters,
\* the records and the last link stay), and the request that follows a
\* retried 429 goes to the URL of the rate-limited request with the same
\* parameters.
C21_RetrySameRequest ==
    [][/\ (Requested /\ Last(hist').slept) =>
              /\ retry_attempts' = retry_attempts + 1
              /\ UNCHANGED <<url, params, logs, last_next_link, pc, reason,
                             client, max_retries>>
       /\ (Requested /\ hist # <<>> /\ Last(hist).slept) =>
              /\ Last(hist').url = Last(hist).url
              /\ Last(hist').params = Last(hist).params]_vars

\* the second page was rate-limited once and then requested again, with
\* the records of the first page kept
C21_Witness ==
    /\ Len(hist) = 3 /\ IsPage(hist[1]) /\ hist[1].resp.body # <<>>
    /\ hist[2].slept /\ hist[2].url # BaseUrl
    /\ hist[3].url = hist[2].url /\ ~hist[3].params
    /\ IsPage(hist[3])
    /\ logs = hist[1].resp.body \o hist[3].resp.body

(***************************************************************************)
(* C22 Retry counter invariant                                             *)
(***************************************************************************)
\* C22: the retry counter of a fetch lies in 0..max_retries, it equals the
\* number of retried 429 responses since the last page while the fetch is
\* looping, and every retried 429 had fewer than max_retries 429 responses
\* directly before it, so no page is retried more than max_retries times.
\* The number of requests of the traversal is not limited by max_retries
\* (C22_Witness).
C22_CounterRange ==
    Called =>
        /\ retry_attempts \in 0..max_retries
        /\ pc = "loop" =>
              retry_attempts = Consecutive429Before(hist, Len(hist) + 1)
        /\ \A i \in 1..Len(hist) :
              hist[i].slept => Consecutive429Before(hist, i) < max_retries

\* with a budget of 1 a traversal of four requests retried two 429
\* responses, one for each page
C22_Witness ==
    /\ max_retries = 1 /\ Len(hist) = 4
    /\ hist[1].slept /\ IsPage(hist[2]) /\ hist[3].slept /\ IsPage(hist[4])
    /\ pc = "loop" /\ retry_attempts = 0

EmptyPages(h) == {i \in 1..Len(h) : IsPage(h[i]) /\ h[i].resp.body = <<>>}
NotAnError(i) ==
    i = Len(hist) =>
        pc \in {"loop", "done"} /\ reason \in {"none", "no_data", "completed"}
\* the traversal goes on after page i exactly when it carries a next link
GoesOnByLink(i) ==
    /\ hist[i].resp.next # NoLink =>
          /\ i = Len(hist) => pc = "loop"
          /\ i < Len(hist) => hist[i+1].url = hist[i].resp.next
    /\ hist[i].resp.next = NoLink =>
          i = Len(hist) /\ pc = "done"

C25_StallAgainstCurrent ==
    client = "okta" =>
        \A i \in 1..Len(hist) :
            (IsPage(hist[i]) /\ hist[i].resp.next = hist[i].url) =>
                i = Len(hist) /\ pc = "done"

(***************************************************************************)
(* C26 Retry-After fallback                                                *)
(***************************************************************************)
\* C26: a 429 within the retry budget whose Retry-After header is absent
\* or is not a number of seconds is answered with a sleep of
\* max(1, min(2^a, 60)) seconds and a retry; the fetch does not raise.
C26_RetryAfterFallback ==
    /\ pc # "raised"
    /\ \A i \in 1..Len(hist) :
          (/\ Is429(hist[i]) /\ hist[i].resp.ra.kind \in {"absent", "date"}
           /\ Consecutive429Before(hist, i) < max_retries)
          => /\ hist[i].slept
             /\ hist[i].wait = Max(1, Exponential(Consecutive429Before(hist, i)))

(***************************************************************************)
(* C27 Parameters only on the initial page                                 *)
(***************************************************************************)
PagesBefore(h, i) == {j \in 1..(i-1) : IsPage(h[j])}

\* C27: a request carries the query parameters of the call exactly when no
\* page has been fetched before it, that is when it asks for the first
\* page or repeats that request after a 429.
C27_ParamsFirstPageOnly ==
    (Called /\ client \in {"okta", "entra"}) =>
        \A i \in 1..Len(hist) :
            hist[i].params <=> PagesBefore(hist, i) = {}

(***************************************************************************)
(* C28 Repeated-field item filtering                                       *)
(***************************************************************************)
\* the items a REPEATED field keeps: mappings under a RECORD field,
\* strings, numbers and booleans under a primitive one
Conforms(item, fs) ==
    IF HasChildren(fs) THEN item.t = "obj"
    ELSE item.t \in {"str", "num", "bool"}
KeptItems(items, fs) ==
    LET kept == SelectSeq(items, LAMBDA x : Conforms(x, fs))
    IN  [k \in 1..Len(kept) |->
            IF HasChildren(fs) THEN filter_json_to_schema(kept[k], fs.fields)
            ELSE kept[k]]

\* C28: a REPEATED field whose input value is a list holds in the output
\* the list of the conforming items of the input, in their order, each
\* mapping projected onto the child schema; the other items are dropped,
\* so the output list is never longer than the input list.
C28_RepeatedItems ==
    (Returned /\ json_obj.t = "obj") =>
        \A i \in 1..Len(schema) :
            (/\ "type" \in DOMAIN schema[i]
             /\ schema[i].mode = "REPEATED"
             /\ ValueAt(json_obj, schema[i].name).t = "list")
            => LET items == ValueAt(json_obj, schema[i].name).v
                   name == schema[i].name
               IN  /\ name \in DOMAIN filtered.v
                   /\ filtered.v[name] = JList(KeptItems(items, schema[i]))
                   /\ Len(filtered.v[name].v) <= Len(items)

\* a list of a string and a mapping with an undeclared key under a
\* REPEATED RECORD field: the string is dropped, the mapping projected
C28_Witness ==
    /\ pstep = "once" /\ json_obj.t = "obj" /\ schema # <<>>
    /\ schema[1] = RecordField("f", "REPEATED", <<PrimField("k", "REQUIRED")>>)
    /\ ValueAt(json_obj, "f") = JList(<<JStr, InnerRecord>>)
    /\ filtered.v["f"] = JList(<<JObj([x \in {"k"} |-> JStr])>>)

\* a null among the strings of a REPEATED primitive field is dropped
C28_WitnessPrimitive ==
    /\ pstep = "once" /\ json_obj.t = "obj" /\ schema # <<>>
    /\ schema[1] = PrimField("f", "REPEATED")
    /\ ValueAt(json_obj, "f") = JList(<<JNull, JStr>>)
    /\ filtered.v["f"] = JList(<<JStr>>)

(***************************************************************************)
(* C29 The Okta fetchers and 429                                           *)
(***************************************************************************)
\* C29: fetch_users, fetch_deactivated_users, fetch_all_workflows and
\* fetch_app_users answer a 429 that follows no other 429 by requesting
\* the same URL with the same parameters again; the traversal does not end
\* with it.
C29_AllOktaFetchersRetry ==
    client \in OktaPlainFetchers =>
        \A i \in 1..Len(hist) :
            (Is429(hist[i]) /\ Consecutive429Before(hist, i) = 0) =>
                /\ i = Len(hist) => pc = "loop"
                /\ i < Len(hist) =>
                      /\ hist[i+1].url = hist[i].url
                      /\ hist[i+1].params = hist[i].params

(***************************************************************************)
(* C30 run_workflow request ordering                                       *)
(***************************************************************************)
Events(l, ev) == {k \in 1..Len(l) : l[k].ev = ev}

\* C30: the first request of run_workflow fetches the compilation result;
\* the workflow is started once, as the second request, only after that
\* fetch succeeded; status checks come only after a start that succeeded;
\* a failed compilation fetch or a failed start is the last request and
\* run_workflow raised an exception.
C30_RequestOrder ==
    /\ wf_log # <<>> => Events(wf_log, "compilation") = {1}
    /\ Events(wf_log, "start") \subseteq {2}
    /\ Len(wf_log) >= 2 =>
          wf_log[1].val = "ok" /\ Events(wf_log, "start") = {2}
    /\ Len(wf_log) >= 3 => wf_log[2].val = "ok"
    /\ \A k \in Events(wf_log, "status") : k >= 3
    /\ \A k \in Events(wf_log, "compilation") \cup Events(wf_log, "start") :
          wf_log[k].val = "error" =>
              /\ k = Len(wf_log)
              /\ wf_pc = "raised" /\ wf_result = "Exception"

\* the compilation result was fetched, the start failed: two requests
C30_Witness ==
    /\ Len(wf_log) = 2 /\ wf_log[1] = Event("compilation", "ok", wf_log[1].at)
    /\ wf_log[2].ev = "start" /\ wf_log[2].val = "error"
    /\ wf_pc = "raised" /\ wf_result = "Exception"

(***************************************************************************)
(* C31 run_workflow with transpile_only                                    *)
(***************************************************************************)
\* C31: with transpile_only set, run_workflow makes no status check and
\* never sleeps; after a start that succeeded its next and last request is
\* the one for the details, whose answer it returns; it raises neither
\* TimeoutError nor, a failed compilation fetch or start apart, Exception.
C31_TranspileOnly ==
    (wf_pc # "idle" /\ transpile_only) =>
        /\ Events(wf_log, "status") = {} /\ Events(wf_log, "sleep") = {}
        /\ Events(wf_log, "details") \subseteq {3}
        /\ Len(wf_log) <= 3
        /\ wf_result # "TimeoutError"
        /\ wf_result = "Exception" => Last(wf_log).val = "error"
                                      /\ Last(wf_log).ev # "details"
        /\ wf_result = "details" =>
              /\ wf_pc = "returned"
              /\ Len(wf_log) = 3 /\ wf_log[3] = Event("details", "ok", wf_log[2].at)
        /\ (Len(wf_log) = 3 /\ wf_log[3].val = "ok") => wf_result = "details"

\* compilation fetched, workflow started, details returned
C31_Witness ==
    /\ transpile_only /\ wf_pc = "returned" /\ wf_result = "details"
    /\ Len(wf_log) = 3 /\ wf_log[2] = Event("start", "ok", wf_log[2].at)
    /\ wf_log[3].ev = "details"

(***************************************************************************)
(* C34 run_workflow acts on a terminal status regardless of elapsed time   *)
(***************************************************************************)
Ended == wf_pc \in {"returned", "raised"}

RunWorkflowEvents == {"compilation", "start", "status", "details", "sleep"}

\* C35: no request of run_workflow is a cancel request; after TimeoutError
\* and after a FAILED status the last request is the status check or the
\* details request that followed it.
C35_NoCancel ==
    /\ \A k \in 1..Len(wf_log) : wf_log[k].ev \in RunWorkflowEvents
    /\ Events(wf_log, "cancel") = {}
    /\ wf_result = "TimeoutError" => Last(wf_log).ev = "status"
    /\ (StatusChecks(wf_log) # {}
          /\ wf_log[LastCheck(wf_log)].val \in {"FAILED", "CANCELLED"}) =>
              /\ LastCheck(wf_log) = Len(wf_log) - 1
              /\ Last(wf_log).ev = "details"

\* a run that ended with TimeoutError after two status checks
C35_Witness ==
    /\ wf_pc = "raised" /\ wf_result = "TimeoutError"
    /\ Cardinality(StatusChecks(wf_log)) = 2
    /\ Last(wf_log).ev = "status" /\ Last(wf_log).val = "RUNNING"

(***************************************************************************)
(* C33 Alternating next links                                              *)
(***************************************************************************)
\* non-empty 200 pages whose next links alternate between two links
Alternating(h) ==
    \A i \in 1..Len(h) :
        /\ IsPage(h[i]) /\ h[i].resp.body # <<>>
        /\ h[i].resp.next \in Links
        /\ i >= 2 => h[i].resp.next # h[i-1].resp.next
        /\ i >= 3 => h[i].resp.next = h[i-2].resp.next

\* C33: as long as the server has answered every request of
\* fetch_system_logs with a non-empty 200 page and next links that
\* alternate between two distinct links, the fetch has detected no stall
\* and is still in its loop, about to request the link it requested two
\* requests ago.
C33_AlternatingLinks ==
    (client = "okta" /\ hist # <<>> /\ Alternating(hist)) =>
        /\ pc = "loop" /\ reason = "none"
        /\ url = Last(hist).resp.next
        /\ last_next_link = Last(hist).resp.next
        /\ Len(hist) >= 3 => url = hist[Len(hist) - 1].url

\* four pages of A, B, A, B: the link A has been requested twice and is
\* about to be requested again
C33_Witness ==
    /\ client = "okta" /\ Len(hist) = 4 /\ Alternating(hist)
    /\ hist[2].url = hist[4].url /\ url = hist[3].url
    /\ pc = "loop"

(***************************************************************************)
(* C36 A failed generate_credentials                                       *)
(***************************************************************************)
\* C36: as long as no token has been issued, that is as long as every
\* generate_credentials call has raised, credentials and access_token are
\* unset and every get_access_token call has raised the not-generated
\* error without attempting a refresh.
C36_FailedGenerateFrame ==
    minted = 0 =>
        /\ credentials = NoCredentials
        /\ access_token = NoToken
        /\ token_call.outcome # "none" =>
              token_call.outcome = "raised" /\ ~token_call.refreshed

(***************************************************************************)
(* C32 fetch_token fallback chain                                          *)
(***************************************************************************)
\* C32: a fetch_token call that found a token file it could not load, or
\* whose refresh of the stored credentials failed, ran the authorization
\* flow and left no token file unless the code exchange succeeded; a call
\* wrote the token file only after a successful code exchange, and then
\* with the credentials it returned; a call whose pasted URL had no code
\* or whose code exchange failed returned None, left no token file and
\* left the fetcher's credentials as they were.
C32_FallbackChain ==
    oauth_call.result # "none" =>
        /\ (oauth_call.file_before.kind = "corrupt"
              \/ oauth_call.refresh = "failed") =>
              /\ oauth_call.flow
              /\ ~oauth_call.exchanged => oauth_call.file_after = AbsentFile
        /\ (oauth_call.file_after.kind = "creds"
              /\ oauth_call.file_after # oauth_call.file_before) =>
              /\ oauth_call.flow /\ oauth_call.exchanged
              /\ oauth_call.result = "creds"
              /\ oauth_call.stored_after = oauth_call.file_after
        /\ (oauth_call.flow /\ ~oauth_call.exchanged) =>
              /\ oauth_call.result = "None"
              /\ oauth_call.file_after = AbsentFile
              /\ oauth_call.stored_after = oauth_call.stored_before
        /\ oauth_call.result = "None" =>
              oauth_call.flow /\ ~oauth_call.exchanged
        /\ oauth_call.file_after.kind # "corrupt"

\* the refresh of the stored credentials failed, the code exchange failed
\* too: the file is gone, None returned, the credentials of the earlier
\* call are still stored
C32_Witness ==
    /\ oauth_call.refresh = "failed" /\ oauth_call.pasted
    /\ ~oauth_call.exchanged /\ oauth_call.result = "None"
    /\ oauth_call.file_before.kind = "creds" /\ token_file = AbsentFile
    /\ oauth_credentials.kind = "creds"
    /\ oauth_credentials = oauth_call.stored_before

====
